---- MODULE Spec2Model ----
(***************************************************************************)
(* A model of the wgpu-pong renderer (src/src/renderer.rs) and of the      *)
(* application that drives it (src/src/app.rs).                            *)
(*                                                                         *)
(* Numbers.  Pixel coordinates are integers counted in sixths of a pixel   *)
(* (Px(n) is n pixels), so that the halves of draw_rectangle and the       *)
(* thirds of draw_triangle are exact.  A normalized device coordinate is   *)
(* an exact fraction <<numerator, denominator>> with a positive            *)
(* denominator.  Rotations are multiples of 90 degrees, whose sine and     *)
(* cosine are integers.  The rounding of f32 is not modelled.              *)
(*                                                                         *)
(* current_index and the elements of indices are u16.  An addition on them *)
(* that overflows wraps modulo 2^16 in a build without overflow checks and *)
(* panics in a build with them; the model takes either outcome.            *)
(*                                                                         *)
(* A batch may start with a run of identical rectangles (LoadedRectangle). *)
(* The run is kept as its length, head_rectangles, and vertices and        *)
(* indices hold what follows it: the Vec of the program is AllVertices,    *)
(* resp. AllIndices.  Every behaviour of Spec has head_rectangles = 0.     *)
(***************************************************************************)
EXTENDS Integers, Sequences, FiniteSets, TLC

VARIABLES
    \* Renderer (renderer.rs:15-30)
    size,              \* Renderer.size: [width, height]
    surface_config,    \* the size last handed to surface.configure
    head_rectangles,   \* length of the run of LoadedRectangle the batch starts with
    vertices,          \* Renderer.vertices, after that run
    indices,           \* Renderer.indices, after that run
    current_index,     \* Renderer.current_index: u16
    vertex_buffer,     \* the written prefix of the GPU vertex buffer
    index_buffer,      \* the written prefix of the GPU index buffer
    \* what the last call on the renderer was and did
    op,                \* name of the last Renderer method called
    result,            \* "ok" | "err" | "panic": how that call ended
    gpu,               \* the device, queue, surface and window calls it made
    drawn,             \* the index triples its draw_indexed made the GPU assemble
    acquire,           \* what the surface answers to get_current_texture during it
    \* history
    frame_state,       \* "Batching" from begin_drawing to the next end_drawing, else "Idle"
    ndc_sizes,         \* the sizes to_ndc read for the vertices now in the batch
    \* App (app.rs:59-64); its renderer, when it has one, is the Renderer above
    app_window,        \* App.window is Some
    app_renderer,      \* App.renderer is Some
    app_state,         \* App.state: <<>> for None, <<State>> for Some
    \* the event loop and what the last handler did
    exit,              \* event_loop.exit() was called
    redraw_requested,  \* the last handler called window.request_redraw()
    app_panic,         \* a handler panicked outside the renderer
    event,             \* name of the last event handled
    log,               \* what that handler logged
    calls              \* the Renderer methods it called, in order

renderer_vars == <<size, surface_config, head_rectangles, vertices, indices,
                   current_index, vertex_buffer, index_buffer>>
call_vars == <<op, result, gpu, drawn, acquire>>
history_vars == <<frame_state, ndc_sizes>>
app_vars == <<app_window, app_renderer, app_state, exit, redraw_requested, app_panic,
              event, log, calls>>
vars == <<renderer_vars, call_vars, history_vars, app_vars>>

----------------------------------------------------------------------------
(* Program constants *)

\* renderer.rs:85 and :92: both GPU buffers hold 1024 elements
BufferCapacity == 1024

\* renderer.rs:28-29: indices and current_index are u16
U16Modulus == 65536

----------------------------------------------------------------------------
(* Bounds of the model *)

\* The model draws into a batch only while it holds fewer than MaxVertices
\* vertices after its run of loaded rectangles.
MaxVertices == 4

----------------------------------------------------------------------------
(* Values *)

Px(n) == 6 * n

PhysicalSize(w, h) == [width |-> w, height |-> h]

Sizes == {PhysicalSize(4, 100), PhysicalSize(8, 100)}

InitialSize == PhysicalSize(4, 100)

Vector2(x, y) == [x |-> x, y |-> y]

Vertex(position, color) == [position |-> position, color |-> color]

\* Deg(0), Deg(90), Deg(180), Deg(270)
Cos(deg) == CASE deg = 0 -> 1 [] deg = 90 -> 0 [] deg = 180 -> -1 [] deg = 270 -> 0

Sin(deg) == CASE deg = 0 -> 0 [] deg = 90 -> 1 [] deg = 180 -> 0 [] deg = 270 -> -1

\* Matrix2::from_angle(rotation) * v + origin
Rotate(deg, v, origin) ==
    Vector2(Cos(deg) * v.x - Sin(deg) * v.y + origin.x,
            Sin(deg) * v.x + Cos(deg) * v.y + origin.y)

\* a fault: the y axis is left pointing down
to_ndc_unflipped(sz, pos) ==
    << <<pos.x - 3 * sz.width, 3 * sz.width>>,
       <<pos.y - 3 * sz.height, 3 * sz.height>> >>

\* (2 x / W - 1, -(2 y / H - 1)) with x, y in sixths of a pixel
to_ndc(sz, pos) ==
    << <<pos.x - 3 * sz.width, 3 * sz.width>>,
       <<3 * sz.height - pos.y, 3 * sz.height>> >>

Overflows(a, b) == a + b >= U16Modulus

WrappingAdd(a, b) == (a + b) % U16Modulus

Call(name, arg) == [call |-> name, arg |-> arg]

----------------------------------------------------------------------------
(* The batch: vertices, indices, current_index.  panic says that the call  *)
(* that made it panicked on the way; sizes are the sizes to_ndc read for   *)
(* its vertices.                                                           *)

Batch(v, i, c, p, s) ==
    [vertices |-> v, indices |-> i, current_index |-> c, panic |-> p, sizes |-> s]

\* A begin_drawing that forgets to reset current_index: the fault
\* C7_BeginDrawing is tested against.
BatchWithCursor == [vertices |-> <<>>, indices |-> <<>>, current_index |-> 3,
                    panic |-> FALSE, sizes |-> {}]

\* begin_drawing, lines 181-183
EmptyBatch == Batch(<<>>, <<>>, 0, FALSE, {})

\* What a drawing call does to the batch b after computing its corners: it
\* pushes the vertices, then one index current_index + offsets[k] for every k,
\* then advances current_index.  With overflow checks the first u16 addition
\* that overflows panics, and what was pushed before it stays pushed.  After
\* a panic nothing runs.
Push(b, corners, color, offsets, advance, overflow_checks) ==
    LET adds == Append(offsets, advance)
        over == {k \in 1..Len(adds) : Overflows(b.current_index, adds[k])}
        first == CHOOSE k \in over : \A j \in over : k <= j
        pushed == [k \in 1..Len(offsets) |-> WrappingAdd(b.current_index, offsets[k])]
        stored == b.vertices \o [k \in 1..Len(corners) |-> Vertex(corners[k], color)]
    IN  IF b.panic
        THEN b
        ELSE IF overflow_checks /\ over # {}
        THEN Batch(stored, b.indices \o SubSeq(pushed, 1, first - 1), b.current_index,
                   TRUE, b.sizes)
        ELSE Batch(stored, b.indices \o pushed, WrappingAdd(b.current_index, advance),
                   FALSE, b.sizes)

\* the same, with the batch worked out once
PushShape(b, corners, color, offsets, advance, overflow_checks) ==
    CHOOSE pushed \in { Push(batch, corners, color, offsets, advance, overflow_checks) :
                           batch \in {b} } : TRUE

\* a fault: the second triangle names a vertex one past the rectangle's four
RectangleOffsetsPastEnd == <<2, 1, 0, 4, 2, 0>>

\* a fault: the two triangles in the order of the corners, clockwise in NDC
RectangleOffsetsClockwise == <<0, 1, 2, 0, 2, 3>>

RectangleOffsets == <<2, 1, 0, 3, 2, 0>>

\* a fault: the triangle names a vertex one past its three
TriangleOffsetsPastEnd == <<0, 1, 3>>

TriangleOffsets == <<0, 1, 2>>

\* the four corners draw_rectangle stores: top left, top right, bottom right,
\* bottom left, each rotated about the centre and taken to NDC
RectangleCorners(sz, pos, width, height, rotation) ==
    LET origin == Vector2(pos.x + width \div 2, pos.y + height \div 2)
        half_width == width \div 2
        half_height == height \div 2
        local_top_left == Vector2(-half_width, -half_height)
        local_top_right == Vector2(half_width, -half_height)
        local_bottom_right == Vector2(half_width, half_height)
        local_bottom_left == Vector2(-half_width, half_height)
    IN  << to_ndc(sz, Rotate(rotation, local_top_left, origin)),
           to_ndc(sz, Rotate(rotation, local_top_right, origin)),
           to_ndc(sz, Rotate(rotation, local_bottom_right, origin)),
           to_ndc(sz, Rotate(rotation, local_bottom_left, origin)) >>

\* the three points draw_triangle stores, each rotated about the centroid
TriangleCorners(sz, v1, v2, v3, rotation) ==
    LET origin == Vector2((v1.x + v2.x + v3.x) \div 3, (v1.y + v2.y + v3.y) \div 3)
        local_v1 == Vector2(v1.x - origin.x, v1.y - origin.y)
        local_v2 == Vector2(v2.x - origin.x, v2.y - origin.y)
        local_v3 == Vector2(v3.x - origin.x, v3.y - origin.y)
    IN  << to_ndc(sz, Rotate(rotation, local_v1, origin)),
           to_ndc(sz, Rotate(rotation, local_v2, origin)),
           to_ndc(sz, Rotate(rotation, local_v3, origin)) >>

\* the body of draw_rectangle on the batch b of a renderer of size sz
PushRectangle(b, sz, pos, width, height, color, rotation, overflow_checks) ==
    PushShape([b EXCEPT !.sizes = @ \cup {sz}],
              RectangleCorners(sz, pos, width, height, rotation), color,
              RectangleOffsets, 4, overflow_checks)

\* the body of draw_triangle on the batch b of a renderer of size sz
PushTriangle(b, sz, v1, v2, v3, color, rotation, overflow_checks) ==
    PushShape([b EXCEPT !.sizes = @ \cup {sz}],
              TriangleCorners(sz, v1, v2, v3, rotation), color,
              TriangleOffsets, 3, overflow_checks)

\* The rectangle of a loaded run.
LoadedRectangle ==
    [pos |-> Vector2(Px(0), Px(0)), width |-> Px(2), height |-> Px(4),
     color |-> "red", rotation |-> 0]

\* The vertices n calls of draw_rectangle(LoadedRectangle), on a renderer of
\* InitialSize, push into an empty batch, n < 16384
LoadedVertices(n) ==
    LET r == LoadedRectangle
        corners == RectangleCorners(InitialSize, r.pos, r.width, r.height, r.rotation)
    IN  [i \in 1..(4 * n) |-> Vertex(corners[((i - 1) % 4) + 1], r.color)]

\* and the indices they push
LoadedIndices(n) ==
    [i \in 1..(6 * n) |-> 4 * ((i - 1) \div 6) + RectangleOffsets[((i - 1) % 6) + 1]]

\* Renderer.vertices and Renderer.indices, whole
AllVertices == LoadedVertices(head_rectangles) \o vertices

AllIndices == LoadedIndices(head_rectangles) \o indices

VerticesLen == 4 * head_rectangles + Len(vertices)

IndicesLen == 6 * head_rectangles + Len(indices)

----------------------------------------------------------------------------
(* Renderer *)

\* App::default(), and no event handled
AppDefault ==
    /\ app_window = FALSE
    /\ app_renderer = FALSE
    /\ app_state = <<>>
    /\ exit = FALSE
    /\ redraw_requested = FALSE
    /\ app_panic = FALSE
    /\ event = "none"
    /\ log = <<>>
    /\ calls = <<>>

\* Renderer::new, from line 135: the fields and the first configure_surface
Init ==
    /\ AppDefault
    /\ size = InitialSize
    /\ surface_config = InitialSize
    /\ head_rectangles = 0
    /\ vertices = <<>>
    /\ indices = <<>>
    /\ current_index = 0
    /\ vertex_buffer = <<>>
    /\ index_buffer = <<>>
    /\ op = "new"
    /\ result = "ok"
    /\ gpu = <<Call("configure", 0)>>
    /\ drawn = <<>>
    /\ acquire = <<>>
    /\ frame_state = "Idle"
    /\ ndc_sizes = {}

\* the process is still running: no call has panicked
Running == result # "panic"

\* A configure_surface that leaves the surface as it is configured: the
\* fault C9_Resize is tested against.
configure_surface_skipped == surface_config' = surface_config

\* surface.configure with the width and the height size has by then (lines
\* 164-165, 170)
configure_surface == surface_config' = size'

resize(new_size) ==
    /\ Running
    /\ size' = new_size
    /\ configure_surface
    /\ op' = "resize"
    /\ result' = "ok"
    /\ gpu' = <<Call("configure", 0)>>
    /\ drawn' = <<>>
    /\ acquire' = <<>>
    /\ UNCHANGED <<head_rectangles, vertices, indices, current_index,
                   vertex_buffer, index_buffer, history_vars>>

\* the batch of the renderer
CurrentBatch == Batch(vertices, indices, current_index, FALSE, ndc_sizes)

\* the batch becomes b
SetBatch(b) ==
    /\ vertices' = b.vertices
    /\ indices' = b.indices
    /\ current_index' = b.current_index

begin_drawing ==
    /\ Running
    /\ head_rectangles' = 0
    /\ SetBatch(EmptyBatch)
    /\ op' = "begin_drawing"
    /\ result' = "ok"
    /\ gpu' = <<>>
    /\ drawn' = <<>>
    /\ acquire' = <<>>
    /\ frame_state' = "Batching"
    /\ ndc_sizes' = EmptyBatch.sizes
    /\ UNCHANGED <<size, surface_config, vertex_buffer, index_buffer>>

\* a drawing call that takes the batch to b
Drawing(name, b) ==
    /\ Running
    /\ SetBatch(b)
    /\ op' = name
    /\ result' = IF b.panic THEN "panic" ELSE "ok"
    /\ gpu' = <<>>
    /\ drawn' = <<>>
    /\ acquire' = <<>>
    /\ ndc_sizes' = b.sizes
    /\ UNCHANGED <<size, surface_config, head_rectangles, vertex_buffer,
                   index_buffer, frame_state>>

draw_rectangle(pos, width, height, color, rotation) ==
    \E overflow_checks \in BOOLEAN :
        Drawing("draw_rectangle",
                PushRectangle(CurrentBatch, size, pos, width, height, color, rotation, overflow_checks))

draw_triangle(v1, v2, v3, color, rotation) ==
    \E overflow_checks \in BOOLEAN :
        Drawing("draw_triangle",
                PushTriangle(CurrentBatch, size, v1, v2, v3, color, rotation,
                             overflow_checks))

\* queue.write_buffer(buffer, 0, data): data replaces the head of the buffer
write_buffer(buffer, data) ==
    data \o SubSeq(buffer, Len(data) + 1, Len(buffer))

\* PrimitiveTopology::TriangleList over the first count entries of the index
\* buffer: one triangle for every complete group of three indices
Primitives(buffer, count) ==
    [t \in 1..(count \div 3) |-> <<buffer[3 * t - 2], buffer[3 * t - 1], buffer[3 * t]>>]

\* A padding that always appends, one 0 to an even count and two to an odd
\* one: the fault C5_Padding is tested against.
PaddedAlways(n, idx) ==
    IF (6 * n + Len(idx)) % 2 # 0 THEN idx \o <<0, 0>> ELSE Append(idx, 0)

\* line 223-226: an odd index count gets one trailing 0.  idx is indices
\* after a run of n loaded rectangles.
Padded(n, idx) == IF (6 * n + Len(idx)) % 2 # 0 THEN Append(idx, 0) ELSE idx

\* A draw call issued whatever the index count, as if lines 233 and 239 were
\* missing: the fault C6_OneDrawCall is tested against.
DrawCallsAlways(index_count) == <<Call("draw_indexed", index_count)>>

\* lines 233-239: one draw_indexed over 0..indices.len(), unless there is no
\* index
DrawCalls(index_count) ==
    IF index_count # 0 THEN <<Call("draw_indexed", index_count)>> ELSE <<>>

\* get_current_texture().unwrap() in the place of get_current_texture()?: the
\* fault C8_PresentationError is tested against.
QuestionUnwrap(answer) == IF answer = "Ok" THEN "ok" ELSE "panic"

\* line 187, get_current_texture()?: how the method goes on after the
\* surface gave answer.  On a SurfaceError `?` returns it to the caller.
Question(answer) == IF answer = "Ok" THEN "ok" ELSE "err"

\* A present that comes before the window is told of it: the fault
\* C11_EndOrder is tested against.
PresentationUnnotified ==
    <<Call("submit", 0), Call("present", 0), Call("pre_present_notify", 0)>>

\* lines 245-247: queue.submit, window.pre_present_notify,
\* surface_texture.present
Presentation ==
    <<Call("submit", 0), Call("pre_present_notify", 0), Call("present", 0)>>

\* An end_drawing that pads the indices before it asks for the texture: the
\* fault C21_FailedAcquire is tested against.
EndDrawingPaddingFirst(n, b, vb, ib, surface) ==
    LET padded == Padded(n, b.indices)
        vertex_count == 4 * n + Len(b.vertices)
        index_count == 6 * n + Len(padded)
        acquired == <<Call("get_current_texture", 0)>>
        pass == acquired \o <<Call("begin_render_pass", 0)>>
        vertex_write == <<Call("write_vertex_buffer", vertex_count)>>
        index_write == <<Call("write_index_buffer", index_count)>>
        present == Presentation
    IN  IF Question(Head(surface)) # "ok"
        THEN [result |-> Question(Head(surface)), gpu |-> acquired, drawn |-> <<>>,
              indices |-> padded, vertex_buffer |-> vb, index_buffer |-> ib]
        ELSE IF vertex_count > BufferCapacity
        THEN [result |-> "panic", gpu |-> pass \o vertex_write, drawn |-> <<>>,
              indices |-> padded, vertex_buffer |-> vb, index_buffer |-> ib]
        ELSE IF index_count > BufferCapacity
        THEN [result |-> "panic", gpu |-> pass \o vertex_write \o index_write,
              drawn |-> <<>>, indices |-> padded,
              vertex_buffer |-> write_buffer(vb, LoadedVertices(n) \o b.vertices),
              index_buffer |-> ib]
        ELSE LET written == write_buffer(ib, LoadedIndices(n) \o padded)
                 draws == DrawCalls(index_count)
             IN  [result |-> "ok",
                  gpu |-> pass \o vertex_write \o index_write \o draws \o present,
                  drawn |-> IF draws # <<>> THEN Primitives(written, index_count) ELSE <<>>,
                  indices |-> padded,
                  vertex_buffer |-> write_buffer(vb, LoadedVertices(n) \o b.vertices),
                  index_buffer |-> written]

\* The body of end_drawing, on a batch of n loaded rectangles and then b, and
\* on the buffers vb and ib.  surface is what get_current_texture answers,
\* call after call; the method asks once (line 187) and `?` returns an
\* error at once.  queue.write_buffer with more data than the buffer holds
\* is a wgpu validation error: nothing is written, and the device's default
\* uncaptured-error handler, which the renderer never replaces, panics.
EndDrawing(n, b, vb, ib, surface) ==
    LET padded == Padded(n, b.indices)
        vertex_count == 4 * n + Len(b.vertices)
        index_count == 6 * n + Len(padded)
        acquired == <<Call("get_current_texture", 0)>>
        pass == acquired \o <<Call("begin_render_pass", 0)>>
        vertex_write == <<Call("write_vertex_buffer", vertex_count)>>
        index_write == <<Call("write_index_buffer", index_count)>>
        present == Presentation
    IN  IF Question(Head(surface)) # "ok"
        THEN [result |-> Question(Head(surface)), gpu |-> acquired, drawn |-> <<>>,
              indices |-> b.indices, vertex_buffer |-> vb, index_buffer |-> ib]
        ELSE IF vertex_count > BufferCapacity
        THEN [result |-> "panic", gpu |-> pass \o vertex_write, drawn |-> <<>>,
              indices |-> padded, vertex_buffer |-> vb, index_buffer |-> ib]
        ELSE IF index_count > BufferCapacity
        THEN [result |-> "panic", gpu |-> pass \o vertex_write \o index_write,
              drawn |-> <<>>, indices |-> padded,
              vertex_buffer |-> write_buffer(vb, LoadedVertices(n) \o b.vertices),
              index_buffer |-> ib]
        ELSE LET written == write_buffer(ib, LoadedIndices(n) \o padded)
                 draws == DrawCalls(index_count)
             IN  [result |-> "ok",
                  gpu |-> pass \o vertex_write \o index_write \o draws \o present,
                  drawn |-> IF draws # <<>> THEN Primitives(written, index_count) ELSE <<>>,
                  indices |-> padded,
                  vertex_buffer |-> write_buffer(vb, LoadedVertices(n) \o b.vertices),
                  index_buffer |-> written]

end_drawing(surface) ==
    LET end == EndDrawing(head_rectangles, CurrentBatch, vertex_buffer, index_buffer,
                          surface)
    IN  /\ Running
        /\ op' = "end_drawing"
        /\ acquire' = surface
        /\ result' = end.result
        /\ gpu' = end.gpu
        /\ drawn' = end.drawn
        /\ indices' = end.indices
        /\ vertex_buffer' = end.vertex_buffer
        /\ index_buffer' = end.index_buffer
        /\ frame_state' = "Idle"
        /\ UNCHANGED <<size, surface_config, head_rectangles, vertices,
                       current_index, ndc_sizes>>

----------------------------------------------------------------------------
(* A caller that makes any sequence of calls *)

Rectangles ==
    { [pos |-> Vector2(Px(0), Px(0)), width |-> Px(2), height |-> Px(4),
       color |-> "red", rotation |-> 0] }

Triangles ==
    { [v1 |-> Vector2(Px(0), Px(0)), v2 |-> Vector2(Px(0), Px(3)),
       v3 |-> Vector2(Px(3), Px(0)), color |-> "blue", rotation |-> 0] }

\* get_current_texture's answers: Ok, or a wgpu::SurfaceError
SurfaceAnswers ==
    { <<"Ok">>, <<"Outdated", "Ok">>, <<"Lost", "Lost">> }

CanDraw == Len(vertices) < MaxVertices

Next ==
    \/ \E s \in Sizes : resize(s) /\ UNCHANGED app_vars
    \/ begin_drawing /\ UNCHANGED app_vars
    \/ \E r \in Rectangles :
          /\ CanDraw
          /\ draw_rectangle(r.pos, r.width, r.height, r.color, r.rotation)
          /\ UNCHANGED app_vars
    \/ \E t \in Triangles :
          /\ CanDraw
          /\ draw_triangle(t.v1, t.v2, t.v3, t.color, t.rotation)
          /\ UNCHANGED app_vars
    \/ \E s \in SurfaceAnswers : end_drawing(s) /\ UNCHANGED app_vars

Spec == Init /\ [][Next]_vars

----------------------------------------------------------------------------
(* Full batches: a renderer on which begin_drawing and then n times        *)
(* draw_rectangle(LoadedRectangle) were called, for the n that take the    *)
(* batch past the capacity of the index buffer (171 rectangles: 1026       *)
(* indices), past that of the vertex buffer (257 rectangles: 1028          *)
(* vertices) and to the last cursor a u16 holds before it overflows        *)
(* (16383 rectangles: 65532 vertices).                                     *)

LoadedRuns == {171, 257, 16383}

InitLoaded ==
    \E n \in LoadedRuns :
        /\ AppDefault
        /\ size = InitialSize
        /\ surface_config = InitialSize
        /\ head_rectangles = n
        /\ vertices = <<>>
        /\ indices = <<>>
        /\ current_index = 4 * n
        /\ vertex_buffer = <<>>
        /\ index_buffer = <<>>
        /\ op = "draw_rectangle"
        /\ result = "ok"
        /\ gpu = <<>>
        /\ drawn = <<>>
        /\ acquire = <<>>
        /\ frame_state = "Batching"
        /\ ndc_sizes = {InitialSize}

SpecLoaded == InitLoaded /\ [][Next]_vars

----------------------------------------------------------------------------
(* Shapes: a renderer the caller draws rectangles and triangles of every   *)
(* sign, order and quarter turn on, to see which way the triangles wind.   *)

\* surfaces of positive size
ShapeSizes == {PhysicalSize(800, 600), PhysicalSize(4, 100)}

ShapeRotations == {0, 90, 180, 270}

\* rectangles of every sign of width and height, the ones of positive extents
\* at every quarter turn
ShapeRectangles ==
    { r \in { [pos |-> pos, width |-> width, height |-> height, color |-> "red",
               rotation |-> rotation] :
                pos \in {Vector2(Px(0), Px(0)), Vector2(Px(10), Px(20))},
                width \in {Px(-20), 0, Px(20)},
                height \in {Px(-100), 0, Px(100)},
                rotation \in ShapeRotations } :
        r.rotation = 0 \/ (r.width > 0 /\ r.height > 0) }

\* three points that are not on a line, in each of their six orders
ShapePoints == {Vector2(Px(0), Px(0)), Vector2(Px(0), Px(3)), Vector2(Px(3), Px(0))}

ShapeTriangles ==
    { [v1 |-> order[1], v2 |-> order[2], v3 |-> order[3], color |-> "blue",
       rotation |-> rotation] :
        order \in { o \in [1..3 -> ShapePoints] : \A i, j \in 1..3 : o[i] = o[j] => i = j },
        rotation \in ShapeRotations }

\* Twice the area of the triangle a, b, c of NDC positions, signed and scaled
\* by the two denominators, which the positions of one drawing call share and
\* which are positive on a surface of positive size.  NDC has y upwards:
\* positive is counter-clockwise, negative clockwise, 0 no area.
SignedArea(a, b, c) ==
    (b[1][1] - a[1][1]) * (c[2][1] - a[2][1])
        - (b[2][1] - a[2][1]) * (c[1][1] - a[1][1])

\* front_face: Ccw with cull_mode: Some(Back): the rasterizer keeps the
\* counter-clockwise triangles and drops the clockwise and the empty ones
FrontFacing(a, b, c) == SignedArea(a, b, c) > 0

\* the triangles the TriangleList topology makes of the indices the step has
\* appended, as triples of positions
AppendedTriangles ==
    LET appended == SubSeq(indices', Len(indices) + 1, Len(indices'))
        triples == Primitives(appended, Len(appended))
        position(i) == vertices'[i - 4 * head_rectangles' + 1].position
    IN  { << position(triples[t][1]), position(triples[t][2]), position(triples[t][3]) >> :
             t \in 1..Len(triples) }

\* the positions the step has appended
AppendedPositions ==
    [k \in 1..(Len(vertices') - Len(vertices)) |-> vertices'[Len(vertices) + k].position]

InitShapes ==
    \E sz \in ShapeSizes :
        /\ AppDefault
        /\ size = sz
        /\ surface_config = sz
        /\ head_rectangles = 0
        /\ vertices = <<>>
        /\ indices = <<>>
        /\ current_index = 0
        /\ vertex_buffer = <<>>
        /\ index_buffer = <<>>
        /\ op = "new"
        /\ result = "ok"
        /\ gpu = <<Call("configure", 0)>>
        /\ drawn = <<>>
        /\ acquire = <<>>
        /\ frame_state = "Idle"
        /\ ndc_sizes = {}

NextShapes ==
    \/ begin_drawing /\ UNCHANGED app_vars
    \/ \E r \in ShapeRectangles :
          /\ CanDraw
          /\ draw_rectangle(r.pos, r.width, r.height, r.color, r.rotation)
          /\ UNCHANGED app_vars
    \/ \E t \in ShapeTriangles :
          /\ CanDraw
          /\ draw_triangle(t.v1, t.v2, t.v3, t.color, t.rotation)
          /\ UNCHANGED app_vars

SpecShapes == InitShapes /\ [][NextShapes]_vars

----------------------------------------------------------------------------
(* The application (app.rs).                                               *)
(*                                                                         *)
(* Game positions are whole pixels.  Time goes in ticks of 15 ms, the      *)
(* delta of a redraw is a number of ticks, and speeds are pixels a tick.   *)
(* Where the program computes a direction with sin and cos, or draws it at *)
(* random, the model takes one of a few directions.                        *)

\* app.rs:15-19
FONT_SIZE == 32

LINE_HEIGHT == 32

PADDLE_SPEED == 1000

BALL_SPEED == 400

BALL_RADIUS == 20

\* app.rs:30: Paddle.score is u8
U8Modulus == 256

\* RedrawRequested is handled only while both scores are below MaxScore
MaxScore == 2

\* the ticks between two redraws
Deltas == {1}

\* pixels a tick at speed pixels a second
Step(speed) == (speed * 3) \div 200

\* resumed, lines 78-109
NewState(sz) ==
    [left |-> [score |-> 0, pos |-> Vector2(0, sz.height \div 2),
               width |-> 20, height |-> 100],
     right |-> [score |-> 0, pos |-> Vector2(sz.width, sz.height \div 2),
                width |-> 20, height |-> 100],
     ball |-> [pos |-> Vector2(sz.width \div 2, sz.height \div 2),
               velocity |-> Vector2(Step(BALL_SPEED), Step(BALL_SPEED) \div 3),
               radius |-> BALL_RADIUS],
     keys_pressed |-> {}]

\* Ball::reset: the centre of the screen, and a direction within 45 degrees
\* of the horizontal, to the left or to the right
BallReset(ball, screen_width, screen_height) ==
    { [ball EXCEPT !.pos = Vector2(screen_width \div 2, screen_height \div 2),
                   !.velocity = Vector2(direction * vx, vy)] :
        direction \in {1, -1},
        <<vx, vy>> \in { <<Step(BALL_SPEED), 0>>, <<Step(BALL_SPEED) - 1, 3>> } }

\* the velocity after a paddle at paddle_y returns the ball towards direction
Bounce(direction, paddle_y, ball_y) ==
    IF paddle_y = ball_y THEN Vector2(direction * Step(BALL_SPEED), 0)
    ELSE IF paddle_y > ball_y THEN Vector2(direction * (Step(BALL_SPEED) - 1), -3)
    ELSE Vector2(direction * (Step(BALL_SPEED) - 1), 3)

PaddleUp(paddle, delta) ==
    LET y == paddle.pos.y - Step(PADDLE_SPEED) * delta
    IN  [paddle EXCEPT !.pos.y = IF y < paddle.height \div 2
                                 THEN paddle.height \div 2 ELSE y]

PaddleDown(paddle, delta, sz) ==
    LET y == paddle.pos.y + Step(PADDLE_SPEED) * delta
    IN  [paddle EXCEPT !.pos.y = IF y > sz.height - paddle.height \div 2
                                 THEN sz.height - paddle.height \div 2 ELSE y]

\* lines 167-201
MovePaddles(st, sz, delta) ==
    LET l1 == IF "KeyW" \in st.keys_pressed THEN PaddleUp(st.left, delta) ELSE st.left
        l2 == IF "KeyS" \in st.keys_pressed THEN PaddleDown(l1, delta, sz) ELSE l1
        r1 == IF "ArrowUp" \in st.keys_pressed THEN PaddleUp(st.right, delta) ELSE st.right
        r2 == IF "ArrowDown" \in st.keys_pressed THEN PaddleDown(r1, delta, sz) ELSE r1
    IN  [st EXCEPT !.left = l2, !.right = r2]

\* lines 205-253: the ball moves, bounces off the top and the bottom, then
\* off the left paddle, then off the right one
MoveBall(st, sz, delta) ==
    LET b0 == st.ball
        moved == [b0 EXCEPT !.pos = Vector2(b0.pos.x + b0.velocity.x * delta,
                                            b0.pos.y + b0.velocity.y * delta)]
        abs(v) == IF v < 0 THEN -v ELSE v
        top == IF moved.pos.y - moved.radius < 0
               THEN [moved EXCEPT !.pos.y = moved.radius,
                                  !.velocity.y = abs(moved.velocity.y)]
               ELSE moved
        bottom == IF top.pos.y + top.radius > sz.height
                  THEN [top EXCEPT !.pos.y = sz.height - top.radius,
                                   !.velocity.y = -abs(top.velocity.y)]
                  ELSE top
        left == IF /\ bottom.pos.x - bottom.radius < st.left.pos.x + st.left.width
                   /\ bottom.pos.y > st.left.pos.y - st.left.height \div 2
                   /\ bottom.pos.y < st.left.pos.y + st.left.height \div 2
                THEN [bottom EXCEPT
                        !.pos.x = st.left.pos.x + st.left.width + bottom.radius,
                        !.velocity = Bounce(1, st.left.pos.y, bottom.pos.y)]
                ELSE bottom
        right == IF /\ left.pos.x + left.radius > st.right.pos.x - st.right.width
                    /\ left.pos.y > st.right.pos.y - st.right.height \div 2
                    /\ left.pos.y < st.right.pos.y + st.right.height \div 2
                 THEN [left EXCEPT
                         !.pos.x = st.right.pos.x - st.right.width - left.radius,
                         !.velocity = Bounce(-1, st.right.pos.y, left.pos.y)]
                 ELSE left
    IN  [st EXCEPT !.ball = right]

\* score += 1 on a u8: [state, panic]
Scored(st, side, overflow_checks) ==
    IF st[side].score + 1 >= U8Modulus /\ overflow_checks
    THEN [state |-> st, panic |-> TRUE]
    ELSE [state |-> [st EXCEPT ![side].score = (@ + 1) % U8Modulus], panic |-> FALSE]

\* lines 255-267: a ball past the left edge scores for the right paddle,
\* one past the right edge for the left paddle, and is reset
Scoring(st, sz, overflow_checks) ==
    LET first == IF st.ball.pos.x < 0
                 THEN LET sc == Scored(st, "right", overflow_checks)
                      IN  IF sc.panic THEN {sc}
                          ELSE { [sc EXCEPT !.state.ball = b] :
                                   b \in BallReset(st.ball, sz.width, sz.height) }
                 ELSE {[state |-> st, panic |-> FALSE]}
        second(f) == IF ~f.panic /\ f.state.ball.pos.x > sz.width
                     THEN LET sc == Scored(f.state, "left", overflow_checks)
                          IN  IF sc.panic THEN {sc}
                              ELSE { [sc EXCEPT !.state.ball = b] :
                                       b \in BallReset(f.state.ball, sz.width, sz.height) }
                     ELSE {f}
    IN  UNION { second(f) : f \in first }

\* lines 163-268: the game states a redraw may reach before it renders
Update(st, sz, delta, overflow_checks) ==
    Scoring(MoveBall(MovePaddles(st, sz, delta), sz, delta), sz, overflow_checks)

\* format!("{}", n) for a u8, as its characters
Digits(n) ==
    LET digit(d) == SubSeq(<<"0", "1", "2", "3", "4", "5", "6", "7", "8", "9">>, d + 1, d + 1)
    IN  IF n < 10 THEN digit(n)
        ELSE IF n < 100 THEN digit(n \div 10) \o digit(n % 10)
        ELSE digit(n \div 100) \o digit((n \div 10) % 10) \o digit(n % 10)

\* "Pong\nGame"
Title == <<"P", "o", "n", "g", "\n", "G", "a", "m", "e">>

\* format!("P1: {}", score), format!("P2: {}", score)
ScoreText(player, score) == <<"P", player, ":", " ">> \o Digits(score)

----------------------------------------------------------------------------
(* Renderer methods the application calls and renderer.rs does not define. *)
(* They are modelled from the specification: a circle is a fan of four     *)
(* counter-clockwise triangles around the centre, a text is one rectangle  *)
(* a character, and a glyph is half as wide as the font is high.           *)

CircleOffsets == <<0, 2, 1, 0, 3, 2, 0, 4, 3, 0, 1, 4>>

\* draw_circle(center, radius, color) on the batch b
PushCircle(b, sz, center, radius, color, overflow_checks) ==
    LET rim(deg) == Vector2(center.x + radius * Cos(deg), center.y + radius * Sin(deg))
    IN  PushShape([b EXCEPT !.sizes = @ \cup {sz}],
                  << to_ndc(sz, center), to_ndc(sz, rim(0)), to_ndc(sz, rim(90)),
                     to_ndc(sz, rim(180)), to_ndc(sz, rim(270)) >>,
                  color, CircleOffsets, 5, overflow_checks)

GlyphWidth(font_size) == font_size \div 2

\* where the characters of text go: <<column, line>> for each one that is
\* not a newline
RECURSIVE Layout(_, _, _)
Layout(text, column, line) ==
    IF text = <<>> THEN <<>>
    ELSE IF Head(text) = "\n" THEN Layout(Tail(text), 0, line + 1)
    ELSE << <<column, line>> >> \o Layout(Tail(text), column + 1, line)

\* measure_text(text, font_size, line_height): the width of the longest line
measure_text(text, font_size, line_height) ==
    LET glyphs == Layout(text, 0, 0)
        columns == {glyphs[k][1] + 1 : k \in 1..Len(glyphs)} \cup {0}
    IN  Px(GlyphWidth(font_size)) * (CHOOSE c \in columns : \A d \in columns : d <= c)

\* draw_text(text, pos, font_size, line_height, None) on the batch b
RECURSIVE PushGlyphs(_, _, _, _, _, _, _)
PushGlyphs(b, sz, glyphs, pos, font_size, line_height, overflow_checks) ==
    IF glyphs = <<>> THEN b
    ELSE PushGlyphs(PushRectangle(b, sz,
                                  Vector2(pos.x + Px(GlyphWidth(font_size)) * Head(glyphs)[1],
                                          pos.y + Px(line_height) * Head(glyphs)[2]),
                                  Px(GlyphWidth(font_size)), Px(font_size), "white", 0,
                                  overflow_checks),
                    sz, Tail(glyphs), pos, font_size, line_height, overflow_checks)

PushText(b, sz, text, pos, font_size, line_height, overflow_checks) ==
    PushGlyphs(b, sz, Layout(text, 0, 0), pos, font_size, line_height, overflow_checks)

----------------------------------------------------------------------------
(* window_event *)

\* A redraw that lays its frame out for the size the window had at first,
\* as if a Resized had not yet taken effect: the fault C10_NoResizeInFrame is
\* tested against.
FrameAtInitialSize(st, sz, overflow_checks) ==
    PushRectangle(EmptyBatch, InitialSize,
                  Vector2(Px(st.left.pos.x), Px(st.left.pos.y) - Px(st.left.height) \div 2),
                  Px(st.left.width), Px(st.left.height), "red", 0, overflow_checks)

\* lines 270-341: the batch a redraw assembles from the game state st on a
\* renderer of size sz
Frame(st, sz, overflow_checks) ==
    LET begun == EmptyBatch
        left == PushRectangle(begun, sz,
                    Vector2(Px(st.left.pos.x), Px(st.left.pos.y) - Px(st.left.height) \div 2),
                    Px(st.left.width), Px(st.left.height), "red", 0, overflow_checks)
        right == PushRectangle(left, sz,
                    Vector2(Px(st.right.pos.x) - Px(st.right.width),
                            Px(st.right.pos.y) - Px(st.right.height) \div 2),
                    Px(st.right.width), Px(st.right.height), "blue", 0, overflow_checks)
        ball == PushCircle(right, sz, Vector2(Px(st.ball.pos.x), Px(st.ball.pos.y)),
                    Px(st.ball.radius), "white", overflow_checks)
        line == PushRectangle(ball, sz, Vector2(Px(sz.width) \div 2 - Px(2), Px(0)),
                    Px(4), Px(sz.height), "grey", 0, overflow_checks)
        p1 == PushText(line, sz, ScoreText("1", st.left.score), Vector2(Px(0), Px(0)),
                    FONT_SIZE, LINE_HEIGHT, overflow_checks)
        title_width == measure_text(Title, FONT_SIZE, LINE_HEIGHT)
        title == PushText(p1, sz, Title,
                    Vector2(Px(sz.width) \div 2 - title_width \div 2, Px(0)),
                    FONT_SIZE, LINE_HEIGHT, overflow_checks)
        p2_width == measure_text(ScoreText("2", st.right.score), FONT_SIZE, LINE_HEIGHT)
    IN  PushText(title, sz, ScoreText("2", st.right.score),
                 Vector2(Px(sz.width) - p2_width, Px(0)),
                 FONT_SIZE, LINE_HEIGHT, overflow_checks)

\* A redraw that ends its frame twice: the fault C12_FrameSequence is tested
\* against.
FrameCallsEndingTwice ==
    <<"begin_drawing", "clear_color", "draw_rectangle", "end_drawing", "end_drawing">>

\* the Renderer methods a redraw calls, in order
FrameCalls ==
    <<"begin_drawing", "clear_color", "draw_rectangle", "draw_rectangle", "draw_circle",
      "draw_rectangle", "draw_text", "measure_text", "draw_text", "measure_text",
      "draw_text", "end_drawing">>

\* lines 122-132: window, renderer and state are all there
Ready == app_window /\ app_renderer /\ app_state # <<>>

\* no handler has panicked, and the event loop was not told to exit
Alive == Running /\ ~app_panic /\ ~exit

\* before the event loop delivers anything: App::default() and no Renderer
AppInit ==
    /\ AppDefault
    /\ size = InitialSize
    /\ surface_config = InitialSize
    /\ head_rectangles = 0
    /\ vertices = <<>>
    /\ indices = <<>>
    /\ current_index = 0
    /\ vertex_buffer = <<>>
    /\ index_buffer = <<>>
    /\ op = "none"
    /\ result = "ok"
    /\ gpu = <<>>
    /\ drawn = <<>>
    /\ acquire = <<>>
    /\ frame_state = "Idle"
    /\ ndc_sizes = {}

\* what a handler that calls no Renderer method leaves alone
NoRendererCall == UNCHANGED <<renderer_vars, call_vars, history_vars>>

\* App::resumed, lines 67-119.  window_ok: create_window succeeded;
\* renderer_ok: Renderer::new succeeded, on a window of inner size sz.
resumed(window_ok, renderer_ok, sz) ==
    /\ Alive
    /\ ~app_window
    /\ event' = "resumed"
    /\ calls' = IF window_ok THEN <<"new">> ELSE <<>>
    /\ redraw_requested' = FALSE
    /\ UNCHANGED <<exit, app_panic>>
    /\ app_window' = window_ok
    /\ IF window_ok /\ renderer_ok
       THEN /\ app_renderer' = TRUE
            /\ app_state' = <<NewState(sz)>>
            /\ log' = <<>>
            /\ size' = sz
            /\ configure_surface
            /\ head_rectangles' = 0
            /\ SetBatch(EmptyBatch)
            /\ vertex_buffer' = <<>>
            /\ index_buffer' = <<>>
            /\ op' = "new"
            /\ result' = "ok"
            /\ gpu' = <<Call("configure", 0)>>
            /\ drawn' = <<>>
            /\ acquire' = <<>>
            /\ frame_state' = "Idle"
            /\ ndc_sizes' = {}
       ELSE /\ log' = IF window_ok THEN <<"Failed to create renderer">>
                      ELSE <<"Failed to create window">>
            /\ UNCHANGED <<app_renderer, app_state>>
            /\ NoRendererCall

WindowEvents == {"CloseRequested", "KeyboardInput", "RedrawRequested", "Resized", "Other"}

\* A probe that lets a Resized through to the renderer before it looks for
\* the window, the renderer and the state: the fault C17_TwoStates is tested
\* against.
SkippedEventButResized(e) ==
    /\ Alive
    /\ ~Ready
    /\ event' = e
    /\ log' = <<>>
    /\ redraw_requested' = FALSE
    /\ UNCHANGED <<app_window, app_renderer, app_state, exit, app_panic>>
    /\ IF e = "Resized"
       THEN /\ resize(InitialSize)
            /\ calls' = <<"resize">>
       ELSE /\ calls' = <<>>
            /\ NoRendererCall

\* window_event, lines 122-132: an event that finds no window, no renderer
\* or no state is logged and dropped
SkippedEvent(e) ==
    /\ Alive
    /\ ~Ready
    /\ event' = e
    /\ log' = IF ~app_window THEN <<"Skip window_event handling. We have no window">>
              ELSE IF ~app_renderer
              THEN <<"Skip window_event handling. We have no renderer">>
              ELSE <<"Skip window_event handling. We have no state">>
    /\ calls' = <<>>
    /\ redraw_requested' = FALSE
    /\ UNCHANGED <<app_window, app_renderer, app_state, exit, app_panic>>
    /\ NoRendererCall

\* lines 135-138
CloseRequested ==
    /\ Alive
    /\ Ready
    /\ event' = "CloseRequested"
    /\ log' = <<"The close button was pressed; stopping">>
    /\ exit' = TRUE
    /\ calls' = <<>>
    /\ redraw_requested' = FALSE
    /\ UNCHANGED <<app_window, app_renderer, app_state, app_panic>>
    /\ NoRendererCall

\* lines 139-161; the key "Unidentified" is a PhysicalKey that is no Code
KeyboardInput(key, pressed) ==
    /\ Alive
    /\ Ready
    /\ event' = "KeyboardInput"
    /\ log' = <<>>
    /\ calls' = <<>>
    /\ redraw_requested' = FALSE
    /\ \E ball \in IF key = "Space" /\ pressed
                    THEN BallReset(app_state[1].ball, size.width, size.height)
                    ELSE {app_state[1].ball} :
          app_state' =
             IF key = "Unidentified" THEN app_state
             ELSE IF ~pressed
             THEN <<[app_state[1] EXCEPT !.keys_pressed = @ \ {key}]>>
             ELSE IF key = "Space"
             THEN <<[app_state[1] EXCEPT !.keys_pressed = @ \cup {key}, !.ball = ball]>>
             ELSE <<[app_state[1] EXCEPT !.keys_pressed = @ \cup {key}]>>
    /\ UNCHANGED <<app_window, app_renderer, exit, app_panic>>
    /\ NoRendererCall

\* what of the game state st the render block reads: the paddles, the scores
\* and the place of the ball, so that Frame(st, ..) = Frame(Shown(st), ..)
Shown(st) == [st EXCEPT !.ball.velocity = Vector2(0, 0), !.keys_pressed = {}]

\* lines 162-349.  delta: the ticks since the last redraw; the surface
\* answers get_current_texture with any of SurfaceAnswers.  The frame is
\* worked out once for all the updates that show the same.
RedrawRequested(delta, overflow_checks) ==
    /\ Alive
    /\ Ready
    /\ app_state[1].left.score < MaxScore
    /\ app_state[1].right.score < MaxScore
    /\ event' = "RedrawRequested"
    /\ UNCHANGED <<app_window, app_renderer, exit, size, surface_config>>
    /\ \E shown \in { IF u.panic THEN <<>> ELSE <<Shown(u.state)>> :
                         u \in Update(app_state[1], size, delta, overflow_checks) } :
          IF shown = <<>>
          THEN /\ app_panic' = TRUE
               /\ log' = <<>>
               /\ calls' = <<>>
               /\ redraw_requested' = FALSE
               /\ UNCHANGED <<app_state, head_rectangles, vertices, indices, current_index,
                              vertex_buffer, index_buffer, call_vars, history_vars>>
          ELSE \E b \in {Frame(shown[1], size, overflow_checks)} :
               \E update \in { u \in Update(app_state[1], size, delta, overflow_checks) :
                                  ~u.panic /\ Shown(u.state) = shown[1] } :
               \E surface \in SurfaceAnswers :
               \E end \in {EndDrawing(0, b, vertex_buffer, index_buffer, surface)} :
                   /\ app_state' = <<update.state>>
                   /\ head_rectangles' = 0
                   /\ vertices' = b.vertices
                   /\ current_index' = b.current_index
                   /\ ndc_sizes' = b.sizes
                   /\ IF b.panic
                      THEN /\ op' = "draw"
                           /\ result' = "panic"
                           /\ indices' = b.indices
                           /\ gpu' = <<>>
                           /\ drawn' = <<>>
                           /\ acquire' = <<>>
                           /\ frame_state' = "Batching"
                           /\ UNCHANGED <<vertex_buffer, index_buffer>>
                      ELSE /\ op' = "end_drawing"
                           /\ result' = end.result
                           /\ indices' = end.indices
                           /\ gpu' = end.gpu
                           /\ drawn' = end.drawn
                           /\ acquire' = surface
                           /\ frame_state' = "Idle"
                           /\ vertex_buffer' = end.vertex_buffer
                           /\ index_buffer' = end.index_buffer
                   /\ calls' = IF b.panic THEN SubSeq(FrameCalls, 1, Len(FrameCalls) - 1)
                               ELSE FrameCalls
                   /\ log' = IF ~b.panic /\ end.result = "err"
                             THEN <<"Error: renderer.render()">> ELSE <<>>
                   /\ redraw_requested' = (~b.panic /\ end.result # "panic")
                   /\ app_panic' = FALSE

\* lines 350-354
Resized(new_size) ==
    /\ Alive
    /\ Ready
    /\ resize(new_size)
    /\ event' = "Resized"
    /\ log' = <<>>
    /\ calls' = <<"resize">>
    /\ redraw_requested' = FALSE
    /\ UNCHANGED <<app_window, app_renderer, app_state, exit, app_panic>>

\* line 355: any other event
OtherEvent ==
    /\ Alive
    /\ Ready
    /\ event' = "Other"
    /\ log' = <<>>
    /\ calls' = <<>>
    /\ redraw_requested' = FALSE
    /\ UNCHANGED <<app_window, app_renderer, app_state, exit, app_panic>>
    /\ NoRendererCall

\* the keys of the keyboard: two KeyCodes, and one key without a KeyCode
Keys == {"KeyW", "Space", "Unidentified"}

AppNext ==
    \/ \E window_ok \in BOOLEAN, renderer_ok \in BOOLEAN, sz \in Sizes :
          resumed(window_ok, renderer_ok, sz)
    \/ \E e \in WindowEvents : SkippedEvent(e)
    \/ CloseRequested
    \/ \E key \in Keys, pressed \in BOOLEAN : KeyboardInput(key, pressed)
    \/ \E delta \in Deltas, overflow_checks \in BOOLEAN :
          RedrawRequested(delta, overflow_checks)
    \/ \E new_size \in Sizes : Resized(new_size)
    \/ OtherEvent

AppSpec == AppInit /\ [][AppNext]_vars

----------------------------------------------------------------------------
(* What the claims speak of *)

\* the number of calls named name the last Renderer method made
Count(name) == Cardinality({k \in 1..Len(gpu) : gpu[k].call = name})

DrawingCalls == {"draw_rectangle", "draw_triangle"}

----------------------------------------------------------------------------
(* Claims *)

\* C1: in every state any sequence of begin_drawing, draw_rectangle,
\* draw_triangle, end_drawing and resize calls reaches, every element of
\* indices is less than vertices.len() and current_index equals
\* vertices.len().  (The indices of a loaded run are below four times its
\* length by construction, so those after it are the ones to look at.)
C1_BatchInvariant ==
    Running =>
        /\ current_index = VerticesLen
        /\ \A k \in 1..Len(indices) : indices[k] < VerticesLen

\* C2: an end_drawing that acquires its texture and finds more than 1024
\* vertices or more than 1024 indices in the batch returns a capacity error,
\* and makes no draw call, no submit and no present.
C2_CapacityError ==
    (/\ op = "end_drawing"
     /\ Head(acquire) = "Ok"
     /\ (VerticesLen > BufferCapacity \/ IndicesLen > BufferCapacity))
    => /\ result = "capacity_error"
       /\ Count("draw_indexed") = 0
       /\ Count("submit") = 0
       /\ Count("present") = 0

\* C3: an end_drawing whose first acquisition reports the surface lost or
\* outdated reconfigures the surface and asks a second time; when the surface
\* is outdated once and then fine, it returns success and presents one frame.
C3_RetryOnce ==
    /\ (op = "end_drawing" /\ Head(acquire) \in {"Lost", "Outdated"})
       => (Count("configure") = 1 /\ Count("get_current_texture") = 2)
    /\ (op = "end_drawing" /\ acquire = <<"Outdated", "Ok">>)
       => (result = "ok" /\ Count("present") = 1)

\* C4: a draw_rectangle or draw_triangle called outside a batch begun by
\* begin_drawing does not return normally: it is surfaced as a contract
\* violation.
C4_DrawOutsideBatching ==
    (op \in DrawingCalls /\ frame_state # "Batching") => result # "ok"

\* C5: when end_drawing succeeds on a batch begun by begin_drawing, indices
\* gets one 0 appended if its length is odd and nothing otherwise, so its
\* length becomes even, and the triangles the draw call makes are those of
\* the indices the drawing calls pushed.
C5_Padding ==
    [][(op' = "end_drawing" /\ result' = "ok" /\ frame_state = "Batching")
       => /\ indices' = IF Len(indices) % 2 = 1 THEN Append(indices, 0) ELSE indices
          /\ Len(indices') % 2 = 0
          /\ 3 * Len(drawn') = Len(indices)
          /\ \A t \in 1..Len(drawn') :
                drawn'[t] = <<indices[3 * t - 2], indices[3 * t - 1], indices[3 * t]>>]_vars

\* C5 happens: after a frame that uploaded a rectangle, begin_drawing
\* emptied the batch, and a batch of one triangle was padded, uploaded and
\* drawn
C5_PaddedFrame ==
    /\ op = "end_drawing"
    /\ result = "ok"
    /\ Len(vertex_buffer) = 4
    /\ Len(vertices) = 3
    /\ indices = <<0, 1, 2, 0>>
    /\ index_buffer = <<0, 1, 2, 0, 2, 0>>
    /\ drawn = << <<0, 1, 2>> >>

\* C6: a successful end_drawing makes one draw_indexed call, over
\* 0..indices.len(), when indices is not empty and none when it is; either
\* way it begins one render pass, which clears the target, and submits and
\* presents once.
C6_OneDrawCall ==
    (op = "end_drawing" /\ result = "ok")
    => /\ IndicesLen # 0 =>
             /\ Count("draw_indexed") = 1
             /\ \E k \in 1..Len(gpu) : gpu[k] = Call("draw_indexed", IndicesLen)
       /\ IndicesLen = 0 => Count("draw_indexed") = 0
       /\ Count("begin_render_pass") = 1
       /\ Count("submit") = 1
       /\ Count("present") = 1

\* C6 happens: an end_drawing with nothing in the batch presented a frame
C6_EmptyFramePresented ==
    /\ op = "end_drawing"
    /\ result = "ok"
    /\ IndicesLen = 0
    /\ Count("present") = 1

\* C7: begin_drawing leaves vertices and indices empty and current_index 0,
\* whatever the state before; and a begin_drawing right after a
\* begin_drawing changes nothing at all, so that what follows the two is
\* what follows the one.
C7_BeginDrawing ==
    [][/\ op' = "begin_drawing"
          => (VerticesLen' = 0 /\ IndicesLen' = 0 /\ current_index' = 0)
       /\ (op = "begin_drawing" /\ op' = "begin_drawing")
          => UNCHANGED <<renderer_vars, call_vars, history_vars>>]_vars

\* C7 happens: begin_drawing emptied a batch that an earlier frame had filled
\* and uploaded
C7_BeganAfterFrame ==
    /\ op = "begin_drawing"
    /\ vertex_buffer # <<>>
    /\ VerticesLen = 0
    /\ IndicesLen = 0
    /\ current_index = 0

\* C8: a redraw whose end_drawing fails to acquire the surface texture gets
\* an error back and no panic; it logs the error, presents nothing, requests
\* the next redraw, and the application goes on handling events.
C8_PresentationError ==
    (calls = FrameCalls /\ op = "end_drawing" /\ Head(acquire) # "Ok")
    => /\ result = "err"
       /\ log = <<"Error: renderer.render()">>
       /\ Count("present") = 0
       /\ redraw_requested
       /\ Alive
       /\ Ready

\* C8 happens: a redraw was dropped because the surface was lost
C8_DroppedFrame ==
    /\ event = "RedrawRequested"
    /\ calls = FrameCalls
    /\ acquire = <<"Lost", "Lost">>
    /\ result = "err"
    /\ redraw_requested

\* C9: resize(new_size) sets size to new_size and configures the surface
\* with it, leaves the batch and the buffers alone, and neither writes,
\* draws, submits nor presents; no other method changes size.
C9_Resize ==
    [][/\ \A new_size \in Sizes :
             resize(new_size)
             => /\ size' = new_size
                /\ surface_config' = new_size
                /\ UNCHANGED <<head_rectangles, vertices, indices, current_index,
                               vertex_buffer, index_buffer>>
                /\ gpu' = <<Call("configure", 0)>>
                /\ drawn' = <<>>
       /\ op' # "resize" => size' = size]_vars

\* C9 happens: a resize in the middle of a batch changed size and left the
\* batch as it was
C9_ResizedInBatch ==
    /\ op = "resize"
    /\ frame_state = "Batching"
    /\ size # InitialSize
    /\ surface_config = size
    /\ vertices # <<>>

\* C10: every batch a redraw of the application submits had all its vertices
\* taken to NDC with the size the renderer has, and the surface is configured
\* with, when end_drawing runs.
C10_NoResizeInFrame ==
    (calls = FrameCalls /\ op = "end_drawing" /\ result = "ok")
    => /\ ndc_sizes = {size}
       /\ surface_config = size

\* C10 happens: a frame was submitted after a Resized had changed the size
\* the window had when the game state was made
C10_FrameAfterResized ==
    /\ calls = FrameCalls
    /\ op = "end_drawing"
    /\ result = "ok"
    /\ Count("submit") = 1
    /\ app_state[1].right.pos.x # size.width
    /\ ndc_sizes = {size}

\* the place of the first call named name among those the last method made
At(name) == CHOOSE k \in 1..Len(gpu) : gpu[k].call = name /\ \A j \in 1..(k - 1) : gpu[j].call # name

\* C11: in a successful end_drawing both buffer writes come before the
\* submit, the submit before pre_present_notify, the present right after
\* pre_present_notify, and the one texture acquired is presented once.
C11_EndOrder ==
    (op = "end_drawing" /\ result = "ok")
    => /\ \A name \in {"get_current_texture", "write_vertex_buffer", "write_index_buffer",
                       "submit", "pre_present_notify", "present"} : Count(name) = 1
       /\ At("get_current_texture") < At("present")
       /\ At("write_vertex_buffer") < At("submit")
       /\ At("write_index_buffer") < At("submit")
       /\ At("submit") < At("pre_present_notify")
       /\ At("present") = At("pre_present_notify") + 1

\* C11 happens: an end_drawing wrote both buffers, drew, submitted, told the
\* window and presented
C11_FullFrame ==
    /\ op = "end_drawing"
    /\ result = "ok"
    /\ Len(gpu) = 8
    /\ gpu[3].call = "write_vertex_buffer"
    /\ gpu[8].call = "present"

\* C12: a RedrawRequested the application handles calls begin_drawing once,
\* first, then drawing operations only, then end_drawing once, last; and no
\* event is handled while a batch is open, so a frame begins only after the
\* frame before it has ended.
C12_FrameSequence ==
    /\ (Running /\ ~app_panic) => frame_state = "Idle"
    /\ (event = "RedrawRequested" /\ Ready /\ ~app_panic)
       => /\ op = "end_drawing"
          /\ Head(calls) = "begin_drawing"
          /\ calls[Len(calls)] = "end_drawing"
          /\ \A k \in 2..(Len(calls) - 1) :
                calls[k] \in {"clear_color", "draw_rectangle", "draw_triangle",
                              "draw_circle", "draw_text", "measure_text"}

\* C12 happens: a redraw made a whole frame of its own, other than the frame
\* an earlier redraw had made and uploaded
C12_SecondFrame ==
    /\ event = "RedrawRequested"
    /\ Len(calls) = 12
    /\ op = "end_drawing"
    /\ Len(vertices) = 89
    /\ Len(vertex_buffer) = 89
    /\ vertex_buffer # vertices

\* C13: the batch is consumed by end_drawing: in the state a successful
\* end_drawing leaves, an end_drawing called again at once uploads no vertex
\* and draws no triangle.
C13_BatchConsumed ==
    (op = "end_drawing" /\ result = "ok")
    => LET again == EndDrawing(head_rectangles, CurrentBatch, vertex_buffer,
                               index_buffer, <<"Ok">>)
       IN  /\ again.drawn = <<>>
           /\ \E k \in 1..Len(again.gpu) : again.gpu[k] = Call("write_vertex_buffer", 0)

\* C14: while a batch is open (begin_drawing called, end_drawing not yet), after
\* any draw_rectangle and draw_triangle calls that returned, the number of
\* indices in the batch is a multiple of 3 and every index in the batch is less
\* than the number of vertices in the batch.
C14_IndicesInRange ==
    (frame_state = "Batching" /\ Running)
    => /\ IndicesLen % 3 = 0
       /\ \A k \in 1..Len(indices) : indices[k] < VerticesLen
       /\ \A k \in 1..Len(RectangleOffsets) :
             4 * (head_rectangles - 1) + RectangleOffsets[k] < VerticesLen

\* a triangle and a rectangle drawn after 16383 rectangles: the rectangle's
\* indices have wrapped round the u16
C14_WrappedIndices ==
    /\ frame_state = "Batching"
    /\ Running
    /\ head_rectangles = 16383
    /\ indices = <<65532, 65533, 65534, 1, 0, 65535, 2, 1, 65535>>
    /\ Len(vertices) = 7

\* C15: a draw_rectangle at rotation 0 with width <= 0 or height <= 0, whatever
\* the two signs, returns without error and each of the two triangles it
\* appends has no area or is clockwise in NDC, so that none is rasterized.
C15_NothingVisible ==
    [][\A r \in ShapeRectangles :
          (/\ op' = "draw_rectangle"
           /\ r.rotation = 0
           /\ (r.width <= 0 \/ r.height <= 0)
           /\ draw_rectangle(r.pos, r.width, r.height, r.color, r.rotation))
          => /\ result' = "ok"
             /\ \A t \in AppendedTriangles : ~FrontFacing(t[1], t[2], t[3])]_vars

\* C16: a draw_rectangle at rotation 0, at (x, y) with extents (w, h) on a
\* surface of size (W, H), stores four positions: the images of (x, y),
\* (x + w, y), (x + w, y + h), (x, y + h), in this order, under
\* (px, py) -> (2 px / W - 1, -(2 py / H - 1)).  Pixels are counted in sixths,
\* and two fractions are compared by cross multiplication.
C16_ClosedForm ==
    [][LET ClosedForm(p, extent) == <<2 * p - 6 * extent, 6 * extent>>
           ClosedFormFlipped(p, extent) == <<6 * extent - 2 * p, 6 * extent>>
           SameNumber(f, g) == f[1] * g[2] = g[1] * f[2]
           IsImage(position, px, py, sz) ==
               /\ SameNumber(position[1], ClosedForm(px, sz.width))
               /\ SameNumber(position[2], ClosedFormFlipped(py, sz.height))
       IN  \A r \in ShapeRectangles :
              (/\ op' = "draw_rectangle"
               /\ r.rotation = 0
               /\ draw_rectangle(r.pos, r.width, r.height, r.color, r.rotation))
              => /\ Len(AppendedPositions) = 4
                 /\ IsImage(AppendedPositions[1], r.pos.x, r.pos.y, size)
                 /\ IsImage(AppendedPositions[2], r.pos.x + r.width, r.pos.y, size)
                 /\ IsImage(AppendedPositions[3], r.pos.x + r.width, r.pos.y + r.height, size)
                 /\ IsImage(AppendedPositions[4], r.pos.x, r.pos.y + r.height, size)]_vars

\* on 800 by 600 the rectangle at (0, 0) of 20 by 100 is stored with its top
\* left at (-1, 1) and its bottom right at (-0.95, 0.667): -2280 / 2400 and
\* 1200 / 1800
C16_Example ==
    /\ op = "draw_rectangle"
    /\ size = PhysicalSize(800, 600)
    /\ Len(vertices) = 4
    /\ vertices[1].position = << <<-2400, 2400>>, <<1800, 1800>> >>
    /\ vertices[3].position = << <<-2280, 2400>>, <<1200, 1800>> >>

\* C19: both triangles a draw_rectangle of positive width and height appends,
\* on a surface of positive size, are counter-clockwise in NDC, at rotation 0,
\* 90, 180 and 270 degrees.
C19_RectangleWinding ==
    [][\A r \in ShapeRectangles :
          (/\ op' = "draw_rectangle"
           /\ r.width > 0
           /\ r.height > 0
           /\ draw_rectangle(r.pos, r.width, r.height, r.color, r.rotation))
          => /\ Cardinality(AppendedTriangles) = 2
             /\ \A t \in AppendedTriangles : FrontFacing(t[1], t[2], t[3])]_vars

\* the 20 by 100 rectangle at (10, 20), turned by 90 degrees about its centre
\* (20, 70) on 800 by 600: its top left corner is stored at pixel (70, 60)
C19_QuarterTurn ==
    /\ op = "draw_rectangle"
    /\ size = PhysicalSize(800, 600)
    /\ Len(vertices) = 4
    /\ vertices[1].position = << <<Px(70) - 2400, 2400>>, <<1800 - Px(60), 1800>> >>
    /\ indices = RectangleOffsets

\* C20: the triangle a draw_triangle appends is counter-clockwise in NDC,
\* whatever the order its three points, not on a line, are passed in.
C20_TriangleWinding ==
    [][\A t \in ShapeTriangles :
          (/\ op' = "draw_triangle"
           /\ draw_triangle(t.v1, t.v2, t.v3, t.color, t.rotation))
          => /\ Cardinality(AppendedTriangles) = 1
             /\ \A a \in AppendedTriangles : FrontFacing(a[1], a[2], a[3])]_vars

\* C17: the application is Ready when it has a window, a renderer and a game
\* state, and Uninitialized otherwise.  A handler calls begin_drawing, a
\* drawing method, end_drawing or resize only when it finds the application
\* Ready; a window event delivered to an Uninitialized application calls no
\* Renderer method and leaves the renderer, the game state and the exit
\* request as they were.
C17_TwoStates ==
    [][LET ready == app_window /\ app_renderer /\ app_state # <<>>
           operations == {"begin_drawing", "clear_color", "draw_rectangle",
                          "draw_triangle", "draw_circle", "draw_text", "measure_text",
                          "end_drawing", "resize"}
       IN  /\ (\E k \in 1..Len(calls') : calls'[k] \in operations) => ready
           /\ (event' \in WindowEvents /\ ~ready)
              => /\ calls' = <<>>
                 /\ UNCHANGED <<renderer_vars, call_vars, app_window, app_renderer,
                                app_state, exit>>]_vars

\* a redraw request that reached an application with a window and no renderer
C17_RejectedRedraw ==
    /\ event = "RedrawRequested"
    /\ app_window
    /\ ~app_renderer
    /\ app_state = <<>>
    /\ calls = <<>>
    /\ log = <<"Skip window_event handling. We have no renderer">>

\* C18: with c the cursor before the call, draw_rectangle appends 4 vertices
\* and the indices c+2, c+1, c, c+3, c+2, c and moves the cursor to c+4;
\* draw_triangle appends 3 vertices and the indices c, c+1, c+2 and moves the
\* cursor to c+3; both leave the earlier vertices and indices and the size of
\* the surface as they were.
C18_Appends ==
    [][LET c == current_index
           kept == /\ head_rectangles' = head_rectangles
                   /\ SubSeq(vertices', 1, Len(vertices)) = vertices
                   /\ SubSeq(indices', 1, Len(indices)) = indices
                   /\ size' = size
           appended == SubSeq(indices', Len(indices) + 1, Len(indices'))
       IN  /\ op' = "draw_rectangle"
              => /\ kept
                 /\ Len(vertices') = Len(vertices) + 4
                 /\ appended = <<c + 2, c + 1, c, c + 3, c + 2, c>>
                 /\ current_index' = c + 4
           /\ op' = "draw_triangle"
              => /\ kept
                 /\ Len(vertices') = Len(vertices) + 3
                 /\ appended = <<c, c + 1, c + 2>>
                 /\ current_index' = c + 3]_vars

\* C21: an end_drawing whose get_current_texture fails returns the error and
\* has changed nothing: vertices, indices (no padding index) and cursor are as
\* before the call, the two buffers too, and the only call made is
\* get_current_texture: no buffer write, no draw call, no submit, no
\* pre_present_notify, no present.
C21_FailedAcquire ==
    [][(op' = "end_drawing" /\ Head(acquire') # "Ok")
       => /\ result' = "err"
          /\ UNCHANGED <<head_rectangles, vertices, indices, current_index,
                         vertex_buffer, index_buffer, size, surface_config>>
          /\ gpu' = <<Call("get_current_texture", 0)>>
          /\ drawn' = <<>>]_vars

\* a batch of one triangle, an odd number of indices, whose end_drawing found
\* the surface lost
C21_LostWithOddIndices ==
    /\ op = "end_drawing"
    /\ result = "err"
    /\ acquire = <<"Lost", "Lost">>
    /\ indices = <<0, 1, 2>>
    /\ Len(vertices) = 3
    /\ gpu = <<Call("get_current_texture", 0)>>

\* C22: an end_drawing that closes a batch opened by begin_drawing, within
\* the capacity of the buffers, draws from what it has itself uploaded: the
\* draw call covers no more index-buffer entries than the frame wrote, the
\* triangles are those of the frame's own indices, and every index names a
\* vertex the frame wrote; what earlier frames left further up the two
\* buffers is not read.
C22_NoStaleRead ==
    [][(frame_state = "Batching" /\ op' = "end_drawing" /\ result' = "ok")
       => LET written_vertices == 4 * head_rectangles' + Len(vertices')
              written_indices == 6 * head_rectangles' + Len(indices')
          IN  /\ \E k \in 1..Len(gpu') :
                    gpu'[k] = Call("write_vertex_buffer", written_vertices)
              /\ \E k \in 1..Len(gpu') :
                    gpu'[k] = Call("write_index_buffer", written_indices)
              /\ \A k \in 1..Len(gpu') :
                    gpu'[k].call = "draw_indexed" => gpu'[k].arg <= written_indices
              /\ SubSeq(vertex_buffer', 1, written_vertices)
                    = LoadedVertices(head_rectangles') \o vertices'
              /\ 3 * Len(drawn') <= written_indices
              /\ \A t \in 1..Len(drawn') :
                    /\ drawn'[t] = << index_buffer'[3 * t - 2], index_buffer'[3 * t - 1],
                                      index_buffer'[3 * t] >>
                    /\ drawn'[t] = SubSeq(LoadedIndices(head_rectangles') \o indices',
                                          3 * t - 2, 3 * t)
                    /\ \A i \in 1..3 : drawn'[t][i] < written_vertices]_vars

\* a frame of one triangle drawn while both buffers still hold, further up,
\* what an earlier and larger frame uploaded
C22_SmallerFrame ==
    /\ op = "end_drawing"
    /\ result = "ok"
    /\ Len(vertices) < Len(vertex_buffer)
    /\ Len(indices) < Len(index_buffer)
    /\ Len(drawn) = 1
    /\ vertex_buffer[Len(vertex_buffer)] # vertices[Len(vertices)]

\* C23: a CloseRequested delivered to an application whose resumed has created
\* the window makes the application ask the event loop to exit, whether or
\* not resumed could also create the renderer.
C23_CloseExits ==
    (event = "CloseRequested" /\ app_window) => exit

====
